---- MODULE Spec2Model ----
(***************************************************************************)
(* Model of package smk (src/smk.go, src/header.go): decoding of the       *)
(* Smacker file header with struc.Unpack, the File container (Parse,       *)
(* ParseFile, Close), and the accessors FrameRate.FPS and TrackInfo.*.      *)
(*                                                                         *)
(* Numbers.  TLC integers are 32-bit signed, so a uint32 cannot be held as *)
(* one integer.  A decoded integer is held as the tuple of its bytes in    *)
(* order of significance, least significant first (a "word"): the word of  *)
(* 0x3000FFFF is <<255, 255, 0, 48>>.  A byte is an integer in 0..255.     *)
(***************************************************************************)
EXTENDS Integers, Sequences, FiniteSets, TLC

VARIABLES
    entry,      \* how the File is built: "reader", "closer" (Parse), "path" (ParseFile)
    orig,       \* the field values the source bytes were encoded from
    src,        \* the bytes of the source stream
    pc,         \* "start" before the call, "returned" after Parse / ParseFile returned
    file,       \* the *File returned to the caller, or NoFile (nil)
    err,        \* the error returned to the caller, "nil" when none
    rpos,       \* number of bytes consumed from the buffered reader File.r
    decodes,    \* number of parseFileHeader calls made
    handle,     \* the os.File / io.Closer behind the source: "none", "open", "closed"
    closeRet,   \* the results of the calls of File.Close, in order
    rate,       \* FrameRate input of FPS
    fps,        \* result of FPS, or NoResult before the call
    info,       \* TrackInfo input of the accessors
    trk         \* results of the six TrackInfo accessors, or NoResult

vars == <<entry, orig, src, pc, file, err, rpos, decodes, handle, closeRet,
          rate, fps, info, trk>>

parseVars == <<entry, orig, src, pc, file, err, rpos, decodes, handle, closeRet>>
fpsVars   == <<rate, fps>>
trkVars   == <<info, trk>>

(***************************************************************************)
(* Bounds of the model.                                                    *)
(***************************************************************************)
MaxFrames == 2      \* frame_count of the encoded inputs ranges over 0..MaxFrames
MaxExtra  == 2      \* bytes that follow the encoded layout in the source
MaxClose  == 3      \* calls of Close on one File
MaxRate   == 60     \* FPS inputs cover -MaxRate..MaxRate and the extreme values

NoFile   == [nil |-> TRUE]
NoResult == [none |-> TRUE]

(***************************************************************************)
(* Sequence helpers.                                                       *)
(***************************************************************************)
Take(s, n) == SubSeq(s, 1, n)

Reverse(s) == [i \in 1..Len(s) |-> s[Len(s) + 1 - i]]

RECURSIVE Flatten(_)
Flatten(ss) == IF ss = <<>> THEN <<>> ELSE Head(ss) \o Flatten(Tail(ss))

\* The value of a word as a Go int (64-bit); the model only converts words
\* below 2^31.
IntOf(w) == w[1] + 256 * w[2] + 65536 * w[3] + 16777216 * w[4]

ZeroWord == <<0, 0, 0, 0>>

(***************************************************************************)
(* FileHeader: the fields of struct FileHeader in declaration order, each  *)
(* with what its struc tag and Go type say: the width in bytes of one      *)
(* element (w), the fixed element count (len, -1 for a slice whose length  *)
(* comes from sizefrom), the byte order, and whether the Go field is       *)
(* exported.  A field with no "little" in its tag has struc's default      *)
(* order, big endian (Flags, and the blank field).  The blank field        *)
(* "_ uint32" is not exported.                                             *)
(***************************************************************************)
Fd(name, w, len, sizefrom, order, exported) ==
    [name |-> name, w |-> w, len |-> len, sizefrom |-> sizefrom,
     order |-> order, exported |-> exported]

FileHeader ==
    << Fd("Signature",  1,  4, "",        "big",    TRUE),
       Fd("Width",      4,  1, "",        "little", TRUE),
       Fd("Height",     4,  1, "",        "little", TRUE),
       Fd("NFrames",    4,  1, "",        "little", TRUE),
       Fd("FrameRate",  4,  1, "",        "little", TRUE),
       Fd("Flags",      4,  1, "",        "big",    TRUE),
       Fd("AudioSize",  4,  7, "",        "little", TRUE),
       Fd("TreesSize",  4,  1, "",        "little", TRUE),
       Fd("MMapSize",   4,  1, "",        "little", TRUE),
       Fd("MClrSize",   4,  1, "",        "little", TRUE),
       Fd("FullSize",   4,  1, "",        "little", TRUE),
       Fd("TypeSize",   4,  1, "",        "little", TRUE),
       Fd("TrackInfo",  4,  7, "",        "little", TRUE),
       Fd("_",          4,  1, "",        "big",    FALSE),
       Fd("FrameSizes", 4, -1, "NFrames", "little", TRUE),
       Fd("FrameTypes", 1, -1, "NFrames", "big",    TRUE) >>

FieldNames == {FileHeader[i].name : i \in {j \in 1..Len(FileHeader) : FileHeader[j].exported}}

\* The zero value of a Go field: "" for the string, nil for a slice, zeroes
\* for an integer and for an array.
ZeroField(fd) ==
    IF fd.name = "Signature" \/ fd.len = -1 THEN <<>>
    ELSE [k \in 1..fd.len |-> ZeroWord]

\* The zero FileHeader embedded in a new File.
ZeroHeader ==
    [n \in FieldNames |->
        LET i == CHOOSE j \in 1..Len(FileHeader) : FileHeader[j].name = n
        IN  ZeroField(FileHeader[i])]

(***************************************************************************)
(* struc.Unpack(r, &f.FileHeader).  The fields are decoded one after the   *)
(* other in declaration order.  struc decodes only the fields it can set   *)
(* through reflection, so the unexported blank field is no part of the     *)
(* decoded layout and no byte is read for it.  For each decoded field the  *)
(* element count is the fixed count of the tag or the value already stored *)
(* in the sizefrom field; count * width bytes are read with io.ReadFull,   *)
(* which fails (io.EOF, io.ErrUnexpectedEOF) when the stream ends first,   *)
(* having consumed what was left.  Result: the error class, the header as  *)
(* filled so far, and the number of bytes consumed from the reader.        *)
(***************************************************************************)
unpackElem(bytes, order) == IF order = "big" THEN Reverse(bytes) ELSE bytes

\* Variant: the sizefrom value taken as a size in bytes, not a count.
FieldLenBytes(fd, hdr) ==
    IF fd.sizefrom # "" THEN IntOf(hdr[fd.sizefrom][1]) \div fd.w ELSE fd.len

FieldLen(fd, hdr) ==
    IF fd.sizefrom # "" THEN IntOf(hdr[fd.sizefrom][1]) ELSE fd.len

Settable(fd) == fd.exported

RECURSIVE UnpackFields(_, _, _, _)
UnpackFields(s, i, pos, hdr) ==
    IF i > Len(FileHeader) THEN [err |-> "nil", hdr |-> hdr, n |-> pos]
    ELSE LET fd == FileHeader[i] IN
         IF ~Settable(fd) THEN UnpackFields(s, i + 1, pos, hdr)
         ELSE LET length == FieldLen(fd, hdr)
                  size   == length * fd.w
              IN  IF pos + size > Len(s)
                  THEN [err |-> "read", hdr |-> hdr, n |-> Len(s)]
                  ELSE LET elems == [k \in 1..length |->
                                       unpackElem(SubSeq(s, pos + (k - 1) * fd.w + 1,
                                                            pos + k * fd.w), fd.order)]
                       IN  UnpackFields(s, i + 1, pos + size,
                                        [hdr EXCEPT ![fd.name] = elems])

Unpack(s) == UnpackFields(s, 1, 0, ZeroHeader)

(***************************************************************************)
(* File.parseFileHeader: Unpack, then the switch on f.Signature.           *)
(***************************************************************************)
Str(bytes) == [i \in 1..Len(bytes) |-> <<bytes[i]>>]
SMK2 == Str(<<83, 77, 75, 50>>)
SMK4 == Str(<<83, 77, 75, 52>>)

\* Variant: the tag compared without regard to case.
Upper(b) == IF b \in 97..122 THEN b - 32 ELSE b
ValidSignatureAnyCase(sig) ==
    LET up == [i \in 1..Len(sig) |-> <<Upper(sig[i][1])>>]
    IN  up = SMK2 \/ up = SMK4

ValidSignature(sig) == sig = SMK2 \/ sig = SMK4

parseFileHeader(s) ==
    LET u == Unpack(s) IN
    IF u.err # "nil" THEN u
    ELSE IF ValidSignature(u.hdr["Signature"]) THEN u
    ELSE [u EXCEPT !.err = "signature"]

(***************************************************************************)
(* Parse(r): a File around a buffered reader of r, with r as its closer    *)
(* when r implements io.Closer; one parseFileHeader; nil and the error     *)
(* when it fails, the File otherwise.  n is the number of bytes the decode *)
(* consumed from the buffered reader.                                     *)
(***************************************************************************)
ParseResult(s, isCloser) ==
    LET p == parseFileHeader(s) IN
    IF p.err # "nil"
    THEN [file |-> NoFile, err |-> p.err, n |-> p.n]
    ELSE [file |-> [hdr |-> p.hdr, c |-> isCloser], err |-> "nil", n |-> p.n]

Parse ==
    /\ pc = "start"
    /\ entry \in {"reader", "closer"}
    /\ LET res == ParseResult(src, entry = "closer") IN
         /\ file' = res.file
         /\ err' = res.err
         /\ rpos' = res.n
    /\ decodes' = decodes + 1
    /\ pc' = "returned"
    /\ UNCHANGED <<entry, orig, src, handle, closeRet>>
    /\ UNCHANGED <<fpsVars, trkVars>>

(***************************************************************************)
(* ParseFile(path): os.Open; when it fails, nil and the error, with no     *)
(* decode; otherwise Parse of the opened file, which is an io.Closer.      *)
(* Nothing in ParseFile or Parse closes the opened file.                   *)
(***************************************************************************)
\* Variant: the opened file closed again when the decode fails.
HandleClosedOnError(res) == IF res.err # "nil" THEN "closed" ELSE "open"

\* The opened file after ParseFile's call of Parse.
HandleAfterParseFile(res) == "open"

ParseFile ==
    /\ pc = "start"
    /\ entry = "path"
    /\ \E opened \in BOOLEAN :
         IF ~opened
         THEN /\ file' = NoFile
              /\ err' = "open"
              /\ UNCHANGED <<rpos, decodes, handle>>
         ELSE LET res == ParseResult(src, TRUE) IN
              /\ file' = res.file
              /\ err' = res.err
              /\ rpos' = res.n
              /\ decodes' = decodes + 1
              /\ handle' = HandleAfterParseFile(res)
    /\ pc' = "returned"
    /\ UNCHANGED <<entry, orig, src, closeRet>>
    /\ UNCHANGED <<fpsVars, trkVars>>

(***************************************************************************)
(* File.Close: the result of f.c.Close() when a closer is attached, nil    *)
(* otherwise.  The attached closer is an *os.File: closing an open file    *)
(* returns nil or an I/O error and leaves it closed; closing a closed file *)
(* returns os.ErrClosed.  CloseOutcomes is the set of possible             *)
(* <<result, handle afterwards>> pairs.                                    *)
(***************************************************************************)
\* Variant: Close remembers that it closed and does nothing the next time.
CloseOutcomesOnce(f, h) ==
    IF f.c /\ h = "open" THEN {<<"nil", "closed">>, <<"io", "closed">>}
    ELSE {<<"nil", h>>}

CloseOutcomes(f, h) ==
    IF f.c
    THEN IF h = "open" THEN {<<"nil", "closed">>, <<"io", "closed">>}
         ELSE {<<"closed", h>>}
    ELSE {<<"nil", h>>}

Close ==
    /\ pc = "returned"
    /\ file # NoFile
    /\ Len(closeRet) < MaxClose
    /\ \E o \in CloseOutcomes(file, handle) :
         /\ closeRet' = Append(closeRet, o[1])
         /\ handle' = o[2]
    /\ UNCHANGED <<entry, orig, src, pc, file, err, rpos, decodes>>
    /\ UNCHANGED <<fpsVars, trkVars>>

(***************************************************************************)
(* FrameRate.FPS.  rate is an int32.  The result is the quotient of two    *)
(* float64 values, held here as the exact fraction num / den (the          *)
(* conversion of an int32 to float64 is exact).  -rate is computed in      *)
(* int32 before the conversion, so it wraps: the negation of -2^31 is      *)
(* -2^31.                                                                  *)
(***************************************************************************)
MinInt32 == -2147483647 - 1
MaxInt32 == 2147483647

Neg32(x) == IF x = MinInt32 THEN MinInt32 ELSE -x

FPS(r) ==
    IF r > 0 THEN [num |-> 1000, den |-> r]
    ELSE IF r < 0 THEN [num |-> 100000, den |-> Neg32(r)]
    ELSE [num |-> 10, den |-> 1]

CallFPS ==
    /\ fps = NoResult
    /\ fps' = FPS(rate)
    /\ UNCHANGED <<rate, parseVars, trkVars>>

(***************************************************************************)
(* TrackInfo accessors.  info & mask is computed byte by byte on the words *)
(* of info and of the mask.                                                *)
(***************************************************************************)
RECURSIVE AndBits(_, _, _)
AndBits(a, b, n) ==
    IF n = 0 THEN 0
    ELSE (a % 2) * (b % 2) + 2 * AndBits(a \div 2, b \div 2, n - 1)

And32(u, m) == [i \in 1..4 |-> AndBits(u[i], m[i], 8)]

Mask_FFFFFF   == <<255, 255, 255, 0>>    \* 0xFFFFFF
Mask_20000000 == <<0, 0, 0, 32>>         \* 0x20000000
Mask_10000000 == <<0, 0, 0, 16>>         \* 0x10000000
Mask_40000000 == <<0, 0, 0, 64>>         \* 0x40000000
Mask_80000000 == <<0, 0, 0, 128>>        \* 0x80000000
Mask_C000000  == <<0, 0, 0, 12>>         \* 0xC000000

SampleRate(u)   == IntOf(And32(u, Mask_FFFFFF))
BitRate(u)      == IF And32(u, Mask_20000000) # ZeroWord THEN 16 ELSE 8
NChannels(u)    == IF And32(u, Mask_10000000) # ZeroWord THEN 2 ELSE 1
HasAudioData(u) == And32(u, Mask_40000000) # ZeroWord
IsCompressed(u) == And32(u, Mask_80000000) # ZeroWord
\* Variant: the mask of IsVersion2 one hex digit wide (0xF000000).
IsVersion2Wide(u) == And32(u, <<0, 0, 0, 15>>) = ZeroWord

IsVersion2(u)   == And32(u, Mask_C000000) = ZeroWord

TrackResults(u) ==
    [SampleRate |-> SampleRate(u), BitRate |-> BitRate(u),
     NChannels |-> NChannels(u), HasAudioData |-> HasAudioData(u),
     IsCompressed |-> IsCompressed(u), IsVersion2 |-> IsVersion2(u)]

CallTrackInfo ==
    /\ trk = NoResult
    /\ trk' = TrackResults(info)
    /\ UNCHANGED <<info, parseVars, fpsVars>>

\* The caller looks at another descriptor that differs from info in bits
\* 25-24 only (b is the new value of the two bits) and calls the accessors.
WithUnusedBits(u, b) == [u EXCEPT ![4] = (u[4] \div 4) * 4 + b]

CallTrackInfoOther ==
    /\ trk # NoResult
    /\ \E b \in 0..3 :
         /\ WithUnusedBits(info, b) # info
         /\ info' = WithUnusedBits(info, b)
         /\ trk' = TrackResults(info')
    /\ UNCHANGED <<parseVars, fpsVars>>

(***************************************************************************)
(* Inputs.  A source stream is built the way section 4.2 of the            *)
(* specification lays a header out: the fields in order, every integer     *)
(* little endian, four padding bytes between the track infos and the frame *)
(* sizes; then cut short or followed by further bytes.                     *)
(***************************************************************************)
Layout ==
    << "Signature", "Width", "Height", "NFrames", "FrameRate", "Flags",
       "AudioSize", "TreesSize", "MMapSize", "MClrSize", "FullSize",
       "TypeSize", "TrackInfo", "Pad", "FrameSizes", "FrameTypes" >>

Encode(v) == Flatten([i \in 1..Len(Layout) |-> Flatten(v[Layout[i]])])

\* A field value that tells the field (k) and the input family (seed) apart.
W(seed, k) == <<k, seed, (k + seed) % 256, seed % 128>>

Signatures ==
    { SMK2, SMK4,
      Str(<<115, 109, 107, 50>>),     \* "smk2"
      Str(<<83, 77, 75, 51>>) }       \* "SMK3"

FlagWords == { ZeroWord, <<4, 3, 2, 1>> }

Seeds == {1, 200}

Values(sig, n, flags, seed) ==
    [f \in {Layout[i] : i \in 1..Len(Layout)} |->
        CASE f = "Signature"  -> sig
          [] f = "Width"      -> <<W(seed, 1)>>
          [] f = "Height"     -> <<W(seed, 2)>>
          [] f = "NFrames"    -> << <<n, 0, 0, 0>> >>
          [] f = "FrameRate"  -> <<W(seed, 3)>>
          [] f = "Flags"      -> <<flags>>
          [] f = "AudioSize"  -> [k \in 1..7 |-> W(seed, 10 + k)]
          [] f = "TreesSize"  -> <<W(seed, 21)>>
          [] f = "MMapSize"   -> <<W(seed, 22)>>
          [] f = "MClrSize"   -> <<W(seed, 23)>>
          [] f = "FullSize"   -> <<W(seed, 24)>>
          [] f = "TypeSize"   -> <<W(seed, 25)>>
          [] f = "TrackInfo"  -> [k \in 1..7 |-> W(seed, 30 + k)]
          [] f = "Pad"        -> <<W(seed, 40)>>
          [] f = "FrameSizes" -> [k \in 1..n |-> W(seed, 50 + k)]
          [] f = "FrameTypes" -> [k \in 1..n |-> <<(seed + 60 + k) % 256>>] ]

Trailer == [k \in 1..MaxExtra |-> 170 + k]

Entries == {"reader", "closer", "path"}

InitParse ==
    /\ entry \in Entries
    /\ \E sig \in Signatures, n \in 0..MaxFrames, flags \in FlagWords, seed \in Seeds :
         /\ orig = Values(sig, n, flags, seed)
         /\ \E cut \in 0..(Len(Encode(orig)) + MaxExtra) :
              src = Take(Encode(orig) \o Trailer, cut)
    /\ pc = "start"
    /\ file = NoFile
    /\ err = "nil"
    /\ rpos = 0
    /\ decodes = 0
    /\ handle = IF entry = "closer" THEN "open" ELSE "none"
    /\ closeRet = <<>>

IdleParse ==
    /\ entry = "reader"
    /\ orig = Values(SMK2, 0, ZeroWord, 1)
    /\ src = <<>>
    /\ pc = "idle"
    /\ file = NoFile
    /\ err = "nil"
    /\ rpos = 0
    /\ decodes = 0
    /\ handle = "none"
    /\ closeRet = <<>>

RateInputs ==
    (-MaxRate..MaxRate) \cup {1000, 2000, -100000, MinInt32, MinInt32 + 1, MaxInt32}

TopBytes == 0..255
LowWords == { <<0, 0, 0>>, <<255, 255, 0>>, <<68, 172, 0>>, <<255, 255, 255>> }

TrackInputs == { <<l[1], l[2], l[3], t>> : l \in LowWords, t \in TopBytes }

IdleFPS   == rate = 0 /\ fps = NoResult
IdleTrack == info = ZeroWord /\ trk = NoResult

(***************************************************************************)
(* Specifications: the container (Spec), FPS (SpecFPS) and the TrackInfo   *)
(* accessors (SpecTrack).                                                  *)
(***************************************************************************)
Init == InitParse /\ IdleFPS /\ IdleTrack
Next == Parse \/ ParseFile \/ Close
Spec == Init /\ [][Next]_vars

InitFPS == IdleParse /\ rate \in RateInputs /\ fps = NoResult /\ IdleTrack
NextFPS == CallFPS
SpecFPS == InitFPS /\ [][NextFPS]_vars

InitTrack == IdleParse /\ IdleFPS /\ info \in TrackInputs /\ trk = NoResult
NextTrack == CallTrackInfo \/ CallTrackInfoOther
SpecTrack == InitTrack /\ [][NextTrack]_vars

(***************************************************************************)
(* Properties.                                                             *)
(***************************************************************************)
Returned == pc = "returned"

\* The frame_count a stream carries: the little-endian integer at offset 12.
FrameCountAt12(s) == IntOf(SubSeq(s, 13, 16))

\* The stream ends before the 104 + 5 * frame_count bytes of the layout.
ShorterThanLayout(s) == Len(s) < 16 \/ Len(s) < 104 + 5 * FrameCountAt12(s)

Tag(s) == Take(s, 4)
RecognizedTag(s) ==
    Len(s) >= 4 /\ (Tag(s) = <<83, 77, 75, 50>> \/ Tag(s) = <<83, 77, 75, 52>>)

\* C1: a stream whose first four bytes are not exactly "SMK2" or "SMK4"
\* (a tag in another case included) makes Parse and ParseFile return an
\* error and a nil File.
C1_UnrecognizedSignatureRejected ==
    (Returned /\ ~RecognizedTag(src)) => (err # "nil" /\ file = NoFile)

C1_Witness ==
    /\ Returned
    /\ Len(src) >= 104
    /\ Tag(src) = <<115, 109, 107, 50>>
    /\ err = "signature"
    /\ file = NoFile

\* C2: a stream shorter than 104 + 5 * frame_count bytes (frame_count the
\* value at offset 12) makes Parse return an error and a nil File.
C2_TruncatedStreamRejected ==
    (Returned /\ ShorterThanLayout(src)) => (err # "nil" /\ file = NoFile)

\* C3: round trip: the fields encoded in the documented order, all integers
\* little endian, with a recognized signature, are parsed back into a
\* FileHeader whose every field, Flags included, equals the encoded value.
C3_RoundTrip ==
    (Returned /\ err # "open" /\ src = Encode(orig) /\ ValidSignature(orig["Signature"]))
        => /\ file # NoFile
           /\ \A f \in FieldNames : file.hdr[f] = orig[f]

\* C4: every File of a successful Parse has len(FrameSizes) =
\* len(FrameTypes) = NFrames, and 7 elements in AudioSize and in TrackInfo.
C4_Lengths ==
    file # NoFile =>
        /\ Len(file.hdr["FrameSizes"]) = FrameCountAt12(src)
        /\ Len(file.hdr["FrameTypes"]) = FrameCountAt12(src)
        /\ IntOf(file.hdr["NFrames"][1]) = FrameCountAt12(src)
        /\ Len(file.hdr["AudioSize"]) = 7
        /\ Len(file.hdr["TrackInfo"]) = 7

C4_Witness ==
    /\ file # NoFile
    /\ FrameCountAt12(src) = 2
    /\ Len(file.hdr["FrameSizes"]) = 2
    /\ Len(file.hdr["FrameTypes"]) = 2

C6_FPSFormula ==
    fps # NoResult =>
        /\ fps.num > 0 /\ fps.den > 0
        /\ rate = 0 => (fps.num = 10 /\ fps.den = 1)
        /\ rate > 0 => (fps.num = 1000 /\ fps.den = rate)
        /\ rate < 0 => (fps.num = 100000 /\ fps.den - 1 = -(rate + 1))

\* C7: IsCompressed is bit 31, HasAudioData bit 30, BitRate 16 or 8 by bit
\* 29, NChannels 2 or 1 by bit 28, IsVersion2 holds iff bits 27 and 26 are
\* zero, SampleRate is u mod 2^24; no result depends on bits 25-24.
Bit(u, i) == (u[(i \div 8) + 1] \div (2 ^ (i % 8))) % 2

C7_TrackInfoBits ==
    trk # NoResult =>
        /\ trk.IsCompressed = (Bit(info, 31) = 1)
        /\ trk.HasAudioData = (Bit(info, 30) = 1)
        /\ trk.BitRate = (IF Bit(info, 29) = 1 THEN 16 ELSE 8)
        /\ trk.NChannels = (IF Bit(info, 28) = 1 THEN 2 ELSE 1)
        /\ trk.IsVersion2 = (Bit(info, 27) = 0 /\ Bit(info, 26) = 0)
        /\ trk.SampleRate = info[1] + 256 * info[2] + 65536 * info[3]
        /\ \A b \in 0..3 : TrackResults(WithUnusedBits(info, b)) = trk

C7_Witness ==
    /\ trk # NoResult
    /\ info = <<255, 255, 0, 51>>
    /\ trk.BitRate = 16
    /\ trk.NChannels = 2
    /\ trk.IsVersion2
    /\ trk.SampleRate = 65535

\* C8: the malformed-signature error is returned only when all
\* 104 + 5 * frame_count bytes were read, and an unrecognized tag on a
\* stream that ends before the layout is complete gives the read error.
C8_SignatureCheckedAfterLayout ==
    Returned =>
        /\ err = "signature" =>
              (~ShorterThanLayout(src) /\ rpos = 104 + 5 * FrameCountAt12(src))
        /\ (err # "open" /\ ~RecognizedTag(src) /\ ShorterThanLayout(src)) =>
              err = "read"

\* C9: after a successful Parse of a stream with frame_count N, exactly
\* 104 + 5 * N bytes were consumed from File.r, and one decode was made.
C9_ReaderPositionedAfterHeader ==
    file # NoFile =>
        /\ rpos = 104 + 5 * IntOf(file.hdr["NFrames"][1])
        /\ decodes = 1

\* C10: Parse and ParseFile never close the source: only Close does.  After
\* ParseFile opened the file and the decode failed, no File is returned and
\* the file stays open; when os.Open fails no decode is made and no file is
\* held.
C10_SourceNeverClosedByParse ==
    /\ handle = "closed" => (file # NoFile /\ Len(closeRet) >= 1)
    /\ (Returned /\ entry = "path" /\ err \in {"read", "signature"}) =>
          (file = NoFile /\ handle = "open" /\ closeRet = <<>>)
    /\ err = "open" => (file = NoFile /\ decodes = 0 /\ handle = "none")

C10_Witness ==
    /\ Returned
    /\ entry = "path"
    /\ err = "signature"
    /\ file = NoFile
    /\ handle = "open"

====
